---- MODULE Spec2Model ----
(***************************************************************************)
(* State-machine model of the iti-events-server authentication controller *)
(* (login, loginMobile, register, refresh, verify, forgotPassword,        *)
(* resetPassword) and of the attendee service (approve, reject, delete)   *)
(* over the User, UserToken and EventAttendee collections.                *)
(*                                                                         *)
(* Every handler is an async function: it runs synchronously up to its    *)
(* first await and is resumed after each awaited I/O call.  A request is  *)
(* one process; its first step is the synchronous prefix of the handler,  *)
(* each later step is one awaited call together with the synchronous code *)
(* that follows it up to the next await or to the response.  Steps of     *)
(* different requests interleave.                                          *)
(*                                                                         *)
(* The persistence layer is taken to be available: the branches that      *)
(* answer "Database error. Please try again later." are taken only when   *)
(* the driver itself fails, and are not part of the model.                *)
(*                                                                         *)
(* The controller is checked one group of flows at a time, each group     *)
(* with the flows that write what it reads:                               *)
(*   SpecRegister  register beside register                               *)
(*   SpecReset     verify and resetPassword beside register,              *)
(*                 forgotPassword and resetPassword                       *)
(*   SpecLogin     login and loginMobile beside register and verify       *)
(*   SpecRefresh   refresh beside register, forgotPassword, resetPassword *)
(*   SpecAttendees the attendee service's updates and deletes beside      *)
(*                 enrolment                                              *)
(*   SpecVerified  verify beside register                                 *)
(* In every group request p1 carries any input of the flows under study   *)
(* and p2 carries the well-formed requests that write to the collections. *)
(***************************************************************************)
EXTENDS Integers, Sequences, FiniteSets, TLC

\* ------------------------------------------------------------------ bounds
MaxUsers     == 2   \* ObjectIds the User collection hands out
MaxTokens    == 2   \* token strings the email service generates
MaxTime      == 2   \* clock ticks
MaxAttendees == 2   \* EventAttendee records enrolled
MaxLoginAttendees == 1  \* EventAttendee records enrolled beside the logins

Procs == {"p1", "p2"}           \* requests in flight at the same time

\* ---------------------------------------------------------------- constants
Absent == "absent"              \* a field the JSON body does not carry

\* password strings at the edges of the length check (7, 8, 25, 26)
Pw7  == "1234567"
Pw8  == "12345678"
Pw25 == "1234567890123456789012345"
Pw26 == "12345678901234567890123456"
Passwords == {Pw7, Pw8, Pw25, Pw26}

Emails    == {"a@x", "b@x"}     \* well-formed addresses
BadEmail  == "bad"              \* fails the schema's format validator

UserIds   == 1..MaxUsers
TokenIds  == 1..MaxTokens
Times     == 0..MaxTime

UserRoleGuest == "guest"
UserRoleAdmin == "admin"

VARIABLES
    users,          \* User collection: set of documents
    nextUserId,     \* next ObjectId of the User collection
    userTokens,     \* UserToken collection: set of [userId, token]
    nextToken,      \* next token string of the email service
    attendees,      \* EventAttendee collection, event populated
    nextAttendeeId, \* next ObjectId of the EventAttendee collection
    outbox,         \* emails dispatched: set of [kind, userId, token]
    now,            \* wall clock
    pc,             \* per request: where the handler is suspended
    req,            \* per request: the handler's inputs and locals
    res,            \* per request: the response written, once done
    resetDone,      \* history: (id, token) pairs of successful password resets
    refreshed       \* history: refresh tokens that have minted an access token

vars == <<users, nextUserId, userTokens, nextToken, attendees, nextAttendeeId,
          outbox, now, pc, req, res, resetDone, refreshed>>

db   == <<users, nextUserId, userTokens, nextToken, attendees, nextAttendeeId, outbox>>
attendeeVars == <<attendees, nextAttendeeId>>
hist == <<resetDone, refreshed>>

NoReq   == [op |-> "none"]
NoUser  == [id |-> 0]
NoToken == [id |-> 0, secret |-> "none", exp |-> 0]
NoRes   == [via |-> "none", status |-> 0, msg |-> "", access |-> NoToken, refresh |-> NoToken]

\* ------------------------------------------------------------- responses
\* next(new AppError(msg, status)): the error goes to the error handler.
NextErr(msg, status) ==
    [via |-> "next", status |-> status, msg |-> msg, access |-> NoToken, refresh |-> NoToken]

\* res.status(status).json(...): access / refresh are the tokens in the body.
Json(status, msg, access, refresh) ==
    [via |-> "json", status |-> status, msg |-> msg, access |-> access, refresh |-> refresh]

\* An exception thrown inside the async handler, outside every try and
\* never handed to next(): the returned promise rejects, nothing is written.
Thrown(msg) ==
    [via |-> "throw", status |-> 0, msg |-> msg, access |-> NoToken, refresh |-> NoToken]

\* next(emailError): the error the email service threw.
EmailError == NextErr("emailError", 500)

\* next(new NotFoundError(msg))
NotFoundError(msg) == NextErr(msg, 404)

\* A finished request leaves before any other step is taken: its response is
\* final, and Finish touches nothing another request reads.
Quiet == \A q \in Procs : pc[q] # "done"

Respond(p, r) ==
    /\ pc'  = [pc EXCEPT ![p] = "done"]
    /\ res' = [res EXCEPT ![p] = r]

Goto(p, label) ==
    /\ pc'  = [pc EXCEPT ![p] = label]
    /\ res' = res

\* ------------------------------------------------------------ token service
AccessTTL  == 1     \* JWT_ACCESS_EXPIRATION, in ticks
RefreshTTL == 2     \* JWT_REFRESH_EXPIRATION, in ticks

\* jwt.sign({ id: user.id }, JWT_ACCESS_SECRET, { expiresIn })
generateAccessToken(user, t) ==
    [id |-> user.id, secret |-> "access", exp |-> t + AccessTTL]

\* jwt.sign({ id: user.id }, JWT_REFRESH_SECRET, { expiresIn })
generateRefreshToken(user, t) ==
    [id |-> user.id, secret |-> "refresh", exp |-> t + RefreshTTL]

\* mutant: the expiry is not checked
verifyTokenNoExpiry(token, t) == token.secret = "refresh"

\* jwt.verify(token, JWT_REFRESH_SECRET): signature, then expiry.
verifyToken(token, t) ==
    /\ token.secret = "refresh"
    /\ t < token.exp

\* --------------------------------------------------------------- User model
\* pre-save hook: the stored password is the bcrypt hash of the plain one.
Hash(p) == [hashed |-> TRUE, of |-> p]

\* bcrypt.compare(plain, stored)
BcryptCompare(p, stored) == stored.hashed /\ stored.of = p

DefaultRole     == UserRoleGuest
DefaultIsActive == TRUE

FindUserByEmail(email) == {u \in users : u.email = email}
FindUserById(id)       == {u \in users : u.id = id}
FindUserToken(id, tok) == {t \in userTokens : t.userId = id /\ t.token = tok}

\* Schema validation of User.create: the kinds of the validator errors.
ValidationKinds(userData) ==
    (IF userData.email = Absent \/ userData.password = Absent
        THEN {"required"} ELSE {})
    \cup (IF userData.email = BadEmail THEN {"regexp"} ELSE {})

\* The document User.create builds from the data it is given.
NewUserDoc(userData, id) ==
    [id            |-> id,
     email         |-> userData.email,
     password      |-> Hash(userData.password),
     role          |-> IF userData.role = Absent THEN DefaultRole ELSE userData.role,
     isActive      |-> IF userData.isActive = Absent THEN DefaultIsActive
                       ELSE userData.isActive = "true",
     emailVerified |-> userData.emailVerified = "true"]

\* What User.create(userData) settles with: a validation error, the unique
\* index's duplicate-key error (code 11000), or the new document.
UserCreate(userData) ==
    IF ValidationKinds(userData) # {}
      THEN [error |-> "ValidationError", kinds |-> ValidationKinds(userData), doc |-> NoUser]
    ELSE IF FindUserByEmail(userData.email) # {}
      THEN [error |-> "E11000", kinds |-> {}, doc |-> NoUser]
      ELSE [error |-> "none", kinds |-> {}, doc |-> NewUserDoc(userData, nextUserId)]

\* ================================================================ register
\* mutant: the role override is left in the body
StripOverridesKeepsRole(body) == [body EXCEPT !.isActive = Absent]

\* delete userData.isActive; delete userData.role;
StripOverrides(body) == [body EXCEPT !.isActive = Absent, !.role = Absent]

\* mutant: the upper limit is off by one
PasswordLengthBadOffByOne(password) == Len(password) < 8 \/ Len(password) > 26

\* userData.password.length < 8 || userData.password.length > 25
PasswordLengthBad(password) == Len(password) < 8 \/ Len(password) > 25

\* mutant: the duplicate-key error is not told apart from other database errors
RegisterErrorResponseNoDuplicate(created) ==
    IF created.error = "ValidationError"
      THEN IF "required" \in created.kinds
             THEN NextErr("DataValidationError", 400)
             ELSE NextErr("DataValidationError", 422)
      ELSE NextErr("Database error. Please try again later.", 500)

\* The error branches after `await asyncWrapper(User.create(userData))`.
RegisterErrorResponse(created) ==
    IF created.error = "ValidationError"
      THEN IF "required" \in created.kinds
             THEN NextErr("DataValidationError", 400)
             ELSE NextErr("DataValidationError", 422)
    ELSE IF created.error = "E11000"
      THEN NextErr("Email already exists. Please use a different email.", 409)
      ELSE NextErr("Database error. Please try again later.", 500)

\* mutant: the compensating delete removes nothing
DeleteUserNoop(id) == users

\* User.deleteOne({ _id: newUser.id })
DeleteUser(id) == {u \in users : u.id # id}

\* register, from the request to `await User.create(userData)`.
\* taken: whether the email belonged to a user when the request arrived.
RegisterStart(p, body) ==
    /\ Quiet
    /\ pc[p] = "idle"
    /\ LET userData == StripOverrides(body) IN
       /\ req' = [req EXCEPT ![p] =
             [op |-> "register", body |-> body, userData |-> userData,
              taken |-> FindUserByEmail(body.email) # {},
              newUser |-> NoUser, access |-> NoToken, refresh |-> NoToken,
              emailFailed |-> FALSE]]
       /\ IF userData.password = Absent
            THEN Respond(p, Thrown("TypeError: Cannot read properties of undefined (reading 'length')"))
          ELSE IF PasswordLengthBad(userData.password)
            THEN Respond(p, NextErr("Password must be between 8 and 25 characters long.", 422))
            ELSE Goto(p, "reg_create")
    /\ UNCHANGED <<db, now, hist>>

\* User.create settles; the error branches, or the tokens are signed and
\* sendVerifyEmail is called.
RegisterCreate(p) ==
    /\ Quiet
    /\ pc[p] = "reg_create"
    /\ LET created == UserCreate(req[p].userData) IN
       IF created.error # "none"
         THEN /\ Respond(p, RegisterErrorResponse(created))
              /\ UNCHANGED <<users, nextUserId, req>>
         ELSE /\ nextUserId <= MaxUsers
              /\ users' = users \cup {created.doc}
              /\ nextUserId' = nextUserId + 1
              /\ req' = [req EXCEPT ![p].newUser = created.doc,
                                    ![p].access = generateAccessToken(created.doc, now),
                                    ![p].refresh = generateRefreshToken(created.doc, now)]
              /\ Goto(p, "reg_email")
    /\ UNCHANGED <<userTokens, nextToken, attendeeVars, outbox, now, hist>>

\* sendVerifyEmail(newUser.id, newUser.email): the service stores a fresh
\* UserToken and dispatches the mail; the dispatch succeeds or throws.
RegisterEmail(p, sent) ==
    /\ Quiet
    /\ pc[p] = "reg_email"
    /\ nextToken <= MaxTokens
    /\ userTokens' = userTokens \cup {[userId |-> req[p].newUser.id, token |-> nextToken]}
    /\ nextToken' = nextToken + 1
    /\ IF sent
         THEN /\ outbox' = outbox \cup
                     {[kind |-> "verify", userId |-> req[p].newUser.id, token |-> nextToken]}
              /\ req' = req
              /\ Respond(p, Json(201, "user", req[p].access, req[p].refresh))
         ELSE /\ outbox' = outbox
              /\ req' = [req EXCEPT ![p].emailFailed = TRUE]
              /\ Goto(p, "reg_rollback")
    /\ UNCHANGED <<users, nextUserId, attendeeVars, now, hist>>

\* catch (emailError): await User.deleteOne(...); return next(emailError);
RegisterRollback(p) ==
    /\ Quiet
    /\ pc[p] = "reg_rollback"
    /\ users' = DeleteUser(req[p].newUser.id)
    /\ Respond(p, EmailError)
    /\ UNCHANGED <<nextUserId, userTokens, nextToken, attendeeVars, outbox, now, req, hist>>

\* The response has been sent (or the promise has settled): the slot is free.
Finish(p) ==
    /\ pc[p] = "done"
    /\ pc'  = [pc EXCEPT ![p] = "idle"]
    /\ req' = [req EXCEPT ![p] = NoReq]
    /\ res' = [res EXCEPT ![p] = NoRes]
    /\ UNCHANGED <<db, now, hist>>

\* =================================================================== login
\* !email || !password: an empty string stands for a missing field.
Missing(field) == field = ""

\* mutant: the password is compared before emailVerified is looked at
LoginCheckPasswordFirst(found, password) ==
    IF found = {} THEN NextErr("Invalid email or password.", 401)
    ELSE LET user == CHOOSE u \in found : TRUE IN
         IF ~BcryptCompare(password, user.password)
           THEN NextErr("Invalid email or password.", 401)
         ELSE IF ~user.emailVerified
           THEN NextErr("Must verify email before logging in.", 403)
           ELSE NoRes

\* login, after `await User.findOne({ email })`: the response of the first
\* check that fails, NoRes when none does.
LoginCheck(found, password) ==
    IF found = {} THEN NextErr("Invalid email or password.", 401)
    ELSE LET user == CHOOSE u \in found : TRUE IN
         IF ~user.emailVerified
           THEN NextErr("Must verify email before logging in.", 403)
         ELSE IF ~BcryptCompare(password, user.password)
           THEN NextErr("Invalid email or password.", 401)
           ELSE NoRes

\* login, up to `await User.findOne({ email })`.
LoginStart(p, email, password) ==
    /\ Quiet
    /\ pc[p] = "idle"
    /\ req' = [req EXCEPT ![p] = [op |-> "login", email |-> email, password |-> password]]
    /\ IF Missing(email) \/ Missing(password)
         THEN Respond(p, NextErr("Must provide username and password for login.", 400))
         ELSE Goto(p, "login_find")
    /\ UNCHANGED <<db, now, hist>>

\* login, from the user lookup to the response.
LoginFind(p) ==
    /\ Quiet
    /\ pc[p] = "login_find"
    /\ LET found  == FindUserByEmail(req[p].email)
           failed == LoginCheck(found, req[p].password)
       IN
       IF failed # NoRes
         THEN Respond(p, failed)
         ELSE LET user == CHOOSE u \in found : TRUE IN
              Respond(p, Json(200, "tokens", generateAccessToken(user, now),
                                             generateRefreshToken(user, now)))
    /\ UNCHANGED <<db, now, req, hist>>

\* ============================================================= loginMobile
NoEvent == [present |-> FALSE, isActive |-> FALSE, endDate |-> 0]

\* mutant: an event that has been deactivated still counts
HasValidEventIgnoresActive(eventAttendees, today) ==
    \E attendee \in eventAttendees :
        attendee.event.present /\ attendee.event.endDate >= today

\* eventAttendees.some((attendee) =>
\*     attendee?.event?.isActive && new Date(attendee?.event?.endDate) >= today)
HasValidEvent(eventAttendees, today) ==
    \E attendee \in eventAttendees :
        /\ attendee.event.present
        /\ attendee.event.isActive
        /\ attendee.event.endDate >= today

\* EventAttendee.find({ userId: user.id }).populate("event")
FindAttendeesOf(userId) == {a \in attendees : a.userId = userId}

\* loginMobile, after `await User.findOne({ email })`: same checks as login.
LoginMobileCheck(found, password) ==
    IF found = {} THEN NextErr("Invalid email or password.", 401)
    ELSE LET user == CHOOSE u \in found : TRUE IN
         IF ~user.emailVerified
           THEN NextErr("Must verify email before logging in.", 403)
         ELSE IF ~BcryptCompare(password, user.password)
           THEN NextErr("Invalid email or password.", 401)
           ELSE NoRes

\* loginMobile, up to `await User.findOne({ email })`.
LoginMobileStart(p, email, password) ==
    /\ Quiet
    /\ pc[p] = "idle"
    /\ req' = [req EXCEPT ![p] = [op |-> "loginMobile", email |-> email,
                                  password |-> password, user |-> NoUser]]
    /\ IF Missing(email) \/ Missing(password)
         THEN Respond(p, NextErr("Must provide username and password for login.", 400))
         ELSE Goto(p, "lm_find")
    /\ UNCHANGED <<db, now, hist>>

\* loginMobile, from the user lookup to the attendee query (Guest) or to the
\* response (every other role).
LoginMobileFind(p) ==
    /\ Quiet
    /\ pc[p] = "lm_find"
    /\ LET found  == FindUserByEmail(req[p].email)
           failed == LoginMobileCheck(found, req[p].password)
       IN
       IF failed # NoRes
         THEN Respond(p, failed) /\ req' = req
         ELSE LET user == CHOOSE u \in found : TRUE IN
              IF user.role = UserRoleGuest
                THEN /\ req' = [req EXCEPT ![p].user = user]
                     /\ Goto(p, "lm_attendees")
                ELSE /\ req' = [req EXCEPT ![p].user = user]
                     /\ Respond(p, Json(200, "tokens", generateAccessToken(user, now),
                                                       generateRefreshToken(user, now)))
    /\ UNCHANGED <<db, now, hist>>

\* loginMobile, from the attendee query to the response.
LoginMobileAttendees(p) ==
    /\ Quiet
    /\ pc[p] = "lm_attendees"
    /\ LET eventAttendees == FindAttendeesOf(req[p].user.id)
           today          == now
       IN
       IF ~HasValidEvent(eventAttendees, today)
         THEN Respond(p, NextErr("User must have an active event with a valid end date to log in.", 403))
         ELSE Respond(p, Json(200, "tokens", generateAccessToken(req[p].user, now),
                                             generateRefreshToken(req[p].user, now)))
    /\ UNCHANGED <<db, now, req, hist>>

\* ================================================================= refresh
\* refresh, up to `await User.findById(id)`: jwt.verify settles without I/O.
RefreshStart(p, refreshToken) ==
    /\ Quiet
    /\ pc[p] = "idle"
    /\ req' = [req EXCEPT ![p] = [op |-> "refresh", refreshToken |-> refreshToken,
                                  usedBefore |-> refreshToken \in refreshed]]
    /\ IF refreshToken = NoToken
         THEN Respond(p, NextErr("Refresh token required.", 400))
       ELSE IF ~verifyToken(refreshToken, now)
         THEN Respond(p, NextErr("Invalid or expired refresh token.", 403))
         ELSE Goto(p, "rf_find")
    /\ UNCHANGED <<db, now, hist>>

\* refresh, from the user lookup to the response.
RefreshFind(p) ==
    /\ Quiet
    /\ pc[p] = "rf_find"
    /\ LET found == FindUserById(req[p].refreshToken.id) IN
       IF found = {}
         THEN /\ Respond(p, NextErr("User not found.", 404))
              /\ refreshed' = refreshed
         ELSE LET user == CHOOSE u \in found : TRUE IN
              /\ Respond(p, Json(200, "accessToken", generateAccessToken(user, now), NoToken))
              /\ refreshed' = refreshed \cup {req[p].refreshToken}
    /\ UNCHANGED <<db, now, req, resetDone>>

\* ================================================================== verify
\* mutant: the update writes no field
SetEmailVerifiedNoop(id) == users

\* User.findByIdAndUpdate(id, { emailVerified: true })
SetEmailVerified(id) ==
    {IF u.id = id THEN [u EXCEPT !.emailVerified = TRUE] ELSE u : u \in users}

\* verify, up to `await UserToken.findOne({ userId: id, token })`;
\* 0 stands for a missing query parameter.
VerifyStart(p, id, token) ==
    /\ Quiet
    /\ pc[p] = "idle"
    /\ req' = [req EXCEPT ![p] = [op |-> "verify", id |-> id, token |-> token,
                                  user |-> NoUser]]
    /\ IF token = 0 \/ id = 0
         THEN Respond(p, NextErr("Invalid verification link.", 400))
         ELSE Goto(p, "vf_find")
    /\ UNCHANGED <<db, now, hist>>

\* verify, from the token lookup to `await User.findByIdAndUpdate(...)`.
VerifyFind(p) ==
    /\ Quiet
    /\ pc[p] = "vf_find"
    /\ IF FindUserToken(req[p].id, req[p].token) = {}
         THEN Respond(p, NextErr("Invalid or expired verification link.", 400))
         ELSE Goto(p, "vf_update")
    /\ UNCHANGED <<db, now, req, hist>>

\* verify, from the update to the response; `user` is the document as it
\* was before the update.
VerifyUpdate(p) ==
    /\ Quiet
    /\ pc[p] = "vf_update"
    /\ LET found == FindUserById(req[p].id) IN
       IF found = {}
         THEN /\ Respond(p, NotFoundError("User not found."))
              /\ UNCHANGED <<users, req>>
         ELSE /\ users' = SetEmailVerified(req[p].id)
              /\ req' = [req EXCEPT ![p].user = CHOOSE u \in found : TRUE]
              /\ Respond(p, Json(200, "Email verified successfully.", NoToken, NoToken))
    /\ UNCHANGED <<nextUserId, userTokens, nextToken, attendeeVars, outbox, now, hist>>

\* ========================================================== forgotPassword
\* forgotPassword, up to `await User.findOne({ email })`.
ForgotStart(p, email) ==
    /\ Quiet
    /\ pc[p] = "idle"
    /\ req' = [req EXCEPT ![p] = [op |-> "forgotPassword", email |-> email, user |-> NoUser]]
    /\ IF Missing(email)
         THEN Respond(p, NextErr("Email is required.", 400))
         ELSE Goto(p, "fp_find")
    /\ UNCHANGED <<db, now, hist>>

\* forgotPassword, from the user lookup to `await sendResetPasswordEmail(...)`.
ForgotFind(p) ==
    /\ Quiet
    /\ pc[p] = "fp_find"
    /\ LET found == FindUserByEmail(req[p].email) IN
       IF found = {}
         THEN /\ Respond(p, NotFoundError("No user found with that email address."))
              /\ req' = req
         ELSE /\ req' = [req EXCEPT ![p].user = CHOOSE u \in found : TRUE]
              /\ Goto(p, "fp_email")
    /\ UNCHANGED <<db, now, hist>>

\* sendResetPasswordEmail(user.id, user.email): the service stores a fresh
\* UserToken and dispatches the mail; the dispatch succeeds or throws.
ForgotEmail(p, sent) ==
    /\ Quiet
    /\ pc[p] = "fp_email"
    /\ nextToken <= MaxTokens
    /\ userTokens' = userTokens \cup {[userId |-> req[p].user.id, token |-> nextToken]}
    /\ nextToken' = nextToken + 1
    /\ IF sent
         THEN /\ outbox' = outbox \cup
                     {[kind |-> "reset", userId |-> req[p].user.id, token |-> nextToken]}
              /\ Respond(p, Json(200, "Password reset email sent successfully.", NoToken, NoToken))
         ELSE /\ outbox' = outbox
              /\ Respond(p, EmailError)
    /\ UNCHANGED <<users, nextUserId, attendeeVars, now, req, hist>>

\* =========================================================== resetPassword
\* mutant: the consumed token stays in the collection
DeleteUserTokenNoop(id, token) == userTokens

\* UserToken.deleteOne({ userId: id, token })
DeleteUserToken(id, token) ==
    {t \in userTokens : ~(t.userId = id /\ t.token = token)}

\* User.findByIdAndUpdate(id, { password: newPassword }, { new: true }); the
\* update may or may not pass through the schema's hashing hook.
SetPassword(id, newPassword, hashed) ==
    {IF u.id = id THEN [u EXCEPT !.password = [hashed |-> hashed, of |-> newPassword]]
     ELSE u : u \in users}

\* resetPassword, up to `await UserToken.findOne({ userId: id, token })`;
\* 0 and "" stand for a missing field.  late: a reset with this (id, token)
\* had already succeeded when the request arrived.
ResetStart(p, id, token, newPassword) ==
    /\ Quiet
    /\ pc[p] = "idle"
    /\ req' = [req EXCEPT ![p] = [op |-> "resetPassword", id |-> id, token |-> token,
                                  newPassword |-> newPassword,
                                  late |-> <<id, token>> \in resetDone]]
    /\ IF id = 0 \/ token = 0 \/ Missing(newPassword)
         THEN Respond(p, NextErr("Invalid request. Please provide id, token, and newPassword in the request body.", 400))
       ELSE IF Len(newPassword) < 8 \/ Len(newPassword) > 25
         THEN Respond(p, NextErr("Password must be between 8 and 25 characters long.", 422))
         ELSE Goto(p, "rp_find")
    /\ UNCHANGED <<db, now, hist>>

\* resetPassword, from the token lookup to `await User.findByIdAndUpdate(...)`.
ResetFind(p) ==
    /\ Quiet
    /\ pc[p] = "rp_find"
    /\ IF FindUserToken(req[p].id, req[p].token) = {}
         THEN Respond(p, NextErr("Invalid or expired token.", 400))
         ELSE Goto(p, "rp_update")
    /\ UNCHANGED <<db, now, req, hist>>

\* resetPassword, from the update to `await UserToken.deleteOne(...)`.
ResetUpdate(p) ==
    /\ Quiet
    /\ pc[p] = "rp_update"
    /\ IF FindUserById(req[p].id) = {}
         THEN /\ Respond(p, NotFoundError("User not found."))
              /\ users' = users
         ELSE /\ \E hashed \in BOOLEAN :
                    users' = SetPassword(req[p].id, req[p].newPassword, hashed)
              /\ Goto(p, "rp_delete")
    /\ UNCHANGED <<nextUserId, userTokens, nextToken, attendeeVars, outbox, now, req, hist>>

\* resetPassword, from the token's deletion to the response.
ResetDelete(p) ==
    /\ Quiet
    /\ pc[p] = "rp_delete"
    /\ userTokens' = DeleteUserToken(req[p].id, req[p].token)
    /\ resetDone' = resetDone \cup {<<req[p].id, req[p].token>>}
    /\ Respond(p, Json(200, "Password reset successfully.", NoToken, NoToken))
    /\ UNCHANGED <<users, nextUserId, nextToken, attendeeVars, outbox, now, req, refreshed>>

\* ======================================================== attendee service
\* null, as the driver returns it when no document matches
NoAttendee == [id |-> 0]

\* `return attendee`: the service function resolves with msg "attendee"
\* (the document is in req.attendee) or with msg "null".
Returned(attendee) ==
    [via |-> "return", status |-> 0,
     msg |-> IF attendee.id = 0 THEN "null" ELSE "attendee",
     access |-> NoToken, refresh |-> NoToken]

FindAttendeeById(attendeeId) == {a \in attendees : a.id = attendeeId}

\* mutant: the update is applied with an empty filter
SetApprovalAll(attendeeId, isApproved) ==
    {[a EXCEPT !.isApproved = isApproved] : a \in attendees}

\* the write of EventAttendee.findByIdAndUpdate(attendeeId, { isApproved })
SetApproval(attendeeId, isApproved) ==
    {IF a.id = attendeeId THEN [a EXCEPT !.isApproved = isApproved] ELSE a : a \in attendees}

\* the write of EventAttendee.findByIdAndDelete(attendeeId)
RemoveAttendee(attendeeId) == {a \in attendees : a.id # attendeeId}

\* updateAttendeeApprovalStatus, up to
\* `await EventAttendee.findByIdAndUpdate(attendeeId, { isApproved }, { new: true })`.
updateAttendeeApprovalStatus(p, attendeeId, isApproved) ==
    /\ Quiet
    /\ pc[p] = "idle"
    /\ req' = [req EXCEPT ![p] = [op |-> "updateAttendeeApprovalStatus",
                                  attendeeId |-> attendeeId, isApproved |-> isApproved,
                                  attendee |-> NoAttendee]]
    /\ Goto(p, "ua_update")
    /\ UNCHANGED <<db, now, hist>>

\* The awaited find-and-update and `return attendee`: with { new: true } the
\* document returned is the one after the update, or null when none matched.
updateAttendeeApprovalStatusReturn(p) ==
    /\ Quiet
    /\ pc[p] = "ua_update"
    /\ attendees' = SetApproval(req[p].attendeeId, req[p].isApproved)
    /\ LET found == {a \in attendees' : a.id = req[p].attendeeId}
           attendee == IF found = {} THEN NoAttendee ELSE CHOOSE a \in found : TRUE
       IN  /\ req' = [req EXCEPT ![p].attendee = attendee]
           /\ Respond(p, Returned(attendee))
    /\ UNCHANGED <<users, nextUserId, userTokens, nextToken, nextAttendeeId, outbox, now, hist>>

\* deleteAttendeeById, up to `await EventAttendee.findByIdAndDelete(attendeeId)`.
deleteAttendeeById(p, attendeeId) ==
    /\ Quiet
    /\ pc[p] = "idle"
    /\ req' = [req EXCEPT ![p] = [op |-> "deleteAttendeeById", attendeeId |-> attendeeId,
                                  attendee |-> NoAttendee]]
    /\ Goto(p, "da_delete")
    /\ UNCHANGED <<db, now, hist>>

\* The awaited find-and-delete and `return attendee`: the document returned
\* is the one that was deleted, or null when none matched.
deleteAttendeeByIdReturn(p) ==
    /\ Quiet
    /\ pc[p] = "da_delete"
    /\ attendees' = RemoveAttendee(req[p].attendeeId)
    /\ LET found == FindAttendeeById(req[p].attendeeId)
           attendee == IF found = {} THEN NoAttendee ELSE CHOOSE a \in found : TRUE
       IN  /\ req' = [req EXCEPT ![p].attendee = attendee]
           /\ Respond(p, Returned(attendee))
    /\ UNCHANGED <<users, nextUserId, userTokens, nextToken, nextAttendeeId, outbox, now, hist>>

\* ============================================================= environment
\* The clock advances.
Tick ==
    /\ Quiet
    /\ now < MaxTime
    /\ now' = now + 1
    /\ UNCHANGED <<db, pc, req, res, hist>>

\* An EventAttendee record is created for a user (by the enrolment routes,
\* which are outside this controller); event is the populated Event.
Enroll(userId, event) ==
    /\ Quiet
    /\ nextAttendeeId <= MaxAttendees
    /\ attendees' = attendees \cup
          {[id |-> nextAttendeeId, userId |-> userId, isApproved |-> FALSE, event |-> event]}
    /\ nextAttendeeId' = nextAttendeeId + 1
    /\ UNCHANGED <<users, nextUserId, userTokens, nextToken, outbox, now, pc, req, res, hist>>

\* ============================================================ specifications
Init ==
    /\ users = {}
    /\ nextUserId = 1
    /\ userTokens = {}
    /\ nextToken = 1
    /\ attendees = {}
    /\ nextAttendeeId = 1
    /\ outbox = {}
    /\ now = 0
    /\ pc  = [p \in Procs |-> "idle"]
    /\ req = [p \in Procs |-> NoReq]
    /\ res = [p \in Procs |-> NoRes]
    /\ resetDone = {}
    /\ refreshed = {}

\* Every body a client may post to /auth/register.
RegisterBodies ==
    [email         : Emails \cup {BadEmail, Absent},
     password      : Passwords \cup {Absent},
     role          : {Absent, UserRoleAdmin},
     isActive      : {Absent, "false"},
     emailVerified : {Absent, "true"}]

\* The well-formed bodies: the ones whose register writes to the store.
PlainBodies ==
    [email : Emails, password : {Pw8}, role : {Absent}, isActive : {Absent},
     emailVerified : {Absent}]

\* Concurrent register requests: p1 posts any body, the requests that run
\* beside it are the ones that write.
NextRegister ==
    \/ \E body \in RegisterBodies : RegisterStart("p1", body)
    \/ \E body \in PlainBodies : RegisterStart("p2", body)
    \/ \E p \in Procs :
        \/ RegisterCreate(p)
        \/ \E sent \in BOOLEAN : RegisterEmail(p, sent)
        \/ RegisterRollback(p)
        \/ Finish(p)

SpecRegister == Init /\ [][NextRegister]_vars

\* ---------------------------------------------------------------- reset
\* Inputs of verify and resetPassword: any id and token a client may send.
IdInputs    == 0..MaxUsers
TokenInputs == 0..MaxTokens
NewPasswordInputs == {"", Pw7, Pw25}

\* Password reset and email verification beside registration: p1 sends any
\* verify and any resetPassword; p2 registers, asks for reset emails and
\* sends the well-formed resets that run beside p1's.
NextReset ==
    \/ \E body \in {b \in PlainBodies : b.email = "a@x"} : RegisterStart("p2", body)
    \/ \E email \in Emails : ForgotStart("p2", email)
    \/ \E id \in UserIds, token \in TokenIds : ResetStart("p2", id, token, Pw25)
    \/ \E id \in IdInputs, token \in TokenInputs, newPassword \in NewPasswordInputs :
          ResetStart("p1", id, token, newPassword)
    \/ \E id \in IdInputs, token \in TokenInputs : VerifyStart("p1", id, token)
    \/ \E p \in Procs :
        \/ RegisterCreate(p)
        \/ \E sent \in BOOLEAN : RegisterEmail(p, sent)
        \/ RegisterRollback(p)
        \/ ForgotFind(p)
        \/ \E sent \in BOOLEAN : ForgotEmail(p, sent)
        \/ ResetFind(p)
        \/ ResetUpdate(p)
        \/ ResetDelete(p)
        \/ VerifyFind(p)
        \/ VerifyUpdate(p)
        \/ Finish(p)

SpecReset == Init /\ [][NextReset]_vars

\* ---------------------------------------------------------------- login
\* An administrator account exists before any request: register cannot
\* create one, the deployment seeds it.
AdminSeed ==
    [id |-> 1, email |-> "b@x", password |-> Hash(Pw8), role |-> UserRoleAdmin,
     isActive |-> TRUE, emailVerified |-> TRUE]

InitLogin ==
    /\ users = {AdminSeed}
    /\ nextUserId = 2
    /\ userTokens = {}
    /\ nextToken = 1
    /\ attendees = {}
    /\ nextAttendeeId = 1
    /\ outbox = {}
    /\ now = 0
    /\ pc  = [p \in Procs |-> "idle"]
    /\ req = [p \in Procs |-> NoReq]
    /\ res = [p \in Procs |-> NoRes]
    /\ resetDone = {}
    /\ refreshed = {}

\* The populated event of an attendee record: none (the event is gone), or
\* an event, active or not, that ends at time 1 (before, at or after the
\* current time as the clock runs).
Events == {NoEvent} \cup [present : {TRUE}, isActive : BOOLEAN, endDate : {1}]

LoginEmails    == Emails \cup {""}
LoginPasswords == {"", Pw8, Pw25}

\* Logins beside registration and verification: p1 logs in (web and mobile)
\* with any credentials, p2 registers and verifies; attendee records appear
\* (at most MaxLoginAttendees of them) and time passes.
NextLogin ==
    \/ \E email \in LoginEmails, password \in LoginPasswords : LoginStart("p1", email, password)
    \/ \E email \in LoginEmails, password \in LoginPasswords : LoginMobileStart("p1", email, password)
    \/ \E body \in PlainBodies : RegisterStart("p2", body)
    \/ \E id \in UserIds, token \in TokenIds : VerifyStart("p2", id, token)
    \/ \E p \in Procs :
        \/ LoginFind(p)
        \/ LoginMobileFind(p)
        \/ LoginMobileAttendees(p)
        \/ RegisterCreate(p)
        \/ \E sent \in BOOLEAN : RegisterEmail(p, sent)
        \/ RegisterRollback(p)
        \/ VerifyFind(p)
        \/ VerifyUpdate(p)
        \/ Finish(p)
    \/ \E userId \in UserIds, event \in Events :
          nextAttendeeId <= MaxLoginAttendees /\ Enroll(userId, event)
    \/ Tick

SpecLogin == InitLogin /\ [][NextLogin]_vars

\* --------------------------------------------------------------- refresh
\* The tokens a client may present to refresh: none, or a refresh or an
\* access token this server signed at time 0 for some user id (live at
\* first, expired once RefreshTTL has passed).
RefreshInputs ==
    {NoToken}
    \cup {generateRefreshToken([id |-> i], 0) : i \in UserIds}
    \cup {generateAccessToken([id |-> i], 0) : i \in UserIds}

\* Token refresh beside registration and password reset: p1 refreshes with
\* any token, p2 registers, asks for a reset email and resets; time passes.
NextRefresh ==
    \/ \E refreshToken \in RefreshInputs : RefreshStart("p1", refreshToken)
    \/ \E body \in {b \in PlainBodies : b.email = "a@x"} : RegisterStart("p2", body)
    \/ ForgotStart("p2", "a@x")
    \/ \E id \in UserIds, token \in TokenIds : ResetStart("p2", id, token, Pw25)
    \/ \E p \in Procs :
        \/ RefreshFind(p)
        \/ RegisterCreate(p)
        \/ \E sent \in BOOLEAN : RegisterEmail(p, sent)
        \/ RegisterRollback(p)
        \/ ForgotFind(p)
        \/ ForgotEmail(p, TRUE)
        \/ ResetFind(p)
        \/ ResetUpdate(p)
        \/ ResetDelete(p)
        \/ Finish(p)
    \/ Tick

SpecRefresh == Init /\ [][NextRefresh]_vars

\* -------------------------------------------------------------- attendees
\* The ids an administrator may put in the path: ids of records that exist,
\* that do not exist yet, or that have been deleted.
AttendeeIdInputs == 1..MaxAttendees

\* the event every record of this group is enrolled in
OpenEvent == [present |-> TRUE, isActive |-> TRUE, endDate |-> 1]

\* The attendee service beside enrolment: either request approves, rejects
\* or deletes by any id while records are being created.
NextAttendees ==
    \/ \E p \in Procs, attendeeId \in AttendeeIdInputs, isApproved \in BOOLEAN :
          updateAttendeeApprovalStatus(p, attendeeId, isApproved)
    \/ \E p \in Procs, attendeeId \in AttendeeIdInputs : deleteAttendeeById(p, attendeeId)
    \/ \E p \in Procs :
        \/ updateAttendeeApprovalStatusReturn(p)
        \/ deleteAttendeeByIdReturn(p)
        \/ Finish(p)
    \/ \E userId \in UserIds : Enroll(userId, OpenEvent)

SpecAttendees == Init /\ [][NextAttendees]_vars

\* ----------------------------------------------------------- verification
\* Email verification beside registration: p1 registers with any body, p2
\* sends any verify.
NextVerified ==
    \/ \E body \in RegisterBodies : RegisterStart("p1", body)
    \/ \E id \in IdInputs, token \in TokenInputs : VerifyStart("p2", id, token)
    \/ \E p \in Procs :
        \/ RegisterCreate(p)
        \/ \E sent \in BOOLEAN : RegisterEmail(p, sent)
        \/ RegisterRollback(p)
        \/ VerifyFind(p)
        \/ VerifyUpdate(p)
        \/ Finish(p)

SpecVerified == Init /\ [][NextVerified]_vars

\* ================================================================== claims
IsRegister(p) == req[p].op = "register"

\* C1: a register request whose password is shorter than 8 or longer than 25
\* characters ends, in the step that receives it, with the 422 error handed
\* to next(), and that step writes no user, no token and sends no email.
C1_PasswordLength422NoWrite ==
    [][\A p \in Procs :
          ( /\ pc[p] = "idle" /\ pc'[p] # "idle"
            /\ req'[p].op = "register"
            /\ req'[p].body.password # Absent
            /\ (Len(req'[p].body.password) < 8 \/ Len(req'[p].body.password) > 25) )
          => /\ pc'[p] = "done"
             /\ res'[p] = NextErr("Password must be between 8 and 25 characters long.", 422)
             /\ users' = users
             /\ userTokens' = userTokens
             /\ outbox' = outbox]_vars

\* C1 witness: a 26-character password was rejected with 422 while the store
\* already held a user.
C1_Witness ==
    \E p \in Procs :
        /\ pc[p] = "done" /\ IsRegister(p)
        /\ req[p].body.password = Pw26
        /\ res[p].status = 422
        /\ users # {}

UniqueEmails == \A u, v \in users : u.email = v.email => u = v

\* C2 as stated: no two users share an email, and every register whose email
\* belonged to a user when it arrived ends with 409, one user holding the email.
\* (Stated for the bodies that carry a password, so that the missing-password
\* exception of C10 is not what refutes it.)
C2_Original ==
    /\ UniqueEmails
    /\ \A p \in Procs :
          (pc[p] = "done" /\ IsRegister(p) /\ req[p].taken
             /\ req[p].body.password # Absent)
          => /\ res[p].status = 409
             /\ Cardinality(FindUserByEmail(req[p].body.email)) = 1

\* C2 amended: no two users ever share an email; a register that passed the
\* password-length check and the schema validation and whose email belongs to
\* a user when User.create runs ends with 409 and leaves the users unchanged.
C2_UniqueEmail409 ==
    /\ UniqueEmails
    /\ [][/\ UniqueEmails'
          /\ \A p \in Procs :
               ( /\ pc[p] = "reg_create" /\ pc'[p] # "reg_create"
                 /\ req[p].userData.email \in Emails
                 /\ \E u \in users : u.email = req[p].userData.email )
               => /\ pc'[p] = "done"
                  /\ res'[p] = NextErr("Email already exists. Please use a different email.", 409)
                  /\ users' = users]_vars

\* C2 witness: a register for a taken email ended with 409.
C2_Witness ==
    \E p \in Procs :
        /\ pc[p] = "done" /\ IsRegister(p)
        /\ res[p].status = 409
        /\ Cardinality(FindUserByEmail(req[p].body.email)) = 1

\* C3: when the verification email of a register failed, then at the end of
\* that register the user it created is gone and the response is the email
\* error handed to next(), not a 201 and with no token.
C3_EmailFailureRollsBack ==
    \A p \in Procs :
        (pc[p] = "done" /\ IsRegister(p) /\ req[p].emailFailed)
        => /\ \A u \in users : u.id # req[p].newUser.id
           /\ res[p] = EmailError
           /\ res[p].status # 201
           /\ res[p].access = NoToken /\ res[p].refresh = NoToken

\* C3 witness: a register whose email failed has finished after creating a user.
C3_Witness ==
    \E p \in Procs :
        /\ pc[p] = "done" /\ IsRegister(p) /\ req[p].emailFailed
        /\ req[p].newUser # NoUser

\* C9: whatever role and isActive a register body carries, every user that
\* register creates has the default role and the default isActive.
C9_RoleAndActiveAreDefaults ==
    /\ \A u \in users : u.role = DefaultRole /\ u.isActive = DefaultIsActive
    /\ \A p \in Procs :
          (IsRegister(p) /\ req[p].newUser # NoUser)
          => /\ req[p].newUser.role = DefaultRole
             /\ req[p].newUser.isActive = DefaultIsActive

\* C9 witness: a body asking for the admin role and isActive false got its
\* 201, and the user it created is in the store.
C9_Witness ==
    \E p \in Procs :
        /\ pc[p] = "done" /\ IsRegister(p)
        /\ req[p].body.role = UserRoleAdmin /\ req[p].body.isActive = "false"
        /\ res[p].status = 201
        /\ req[p].newUser \in users

\* C10 as stated: every register that omits a required field (email or
\* password) ends with the 400 validation error handed to next() and creates
\* no user.
C10_MissingFieldIs400 ==
    \A p \in Procs :
        ( /\ pc[p] = "done" /\ IsRegister(p)
          /\ (req[p].body.email = Absent \/ req[p].body.password = Absent) )
        => /\ res[p] = NextErr("DataValidationError", 400)
           /\ req[p].newUser = NoUser

\* p takes a step of the handler it is in (not the bookkeeping Finish step).
Steps(p) == pc[p] # pc'[p] /\ pc'[p] # "idle"

\* C4 as stated: a resetPassword presenting an (id, token) with which a reset
\* has already succeeded ends with 400 "Invalid or expired token." and none of
\* its steps changes a user.
C4_Original ==
    [][\A p \in Procs :
          (Steps(p) /\ req'[p].op = "resetPassword" /\ req'[p].late)
          => /\ users' = users
             /\ pc'[p] = "done" =>
                   res'[p] = NextErr("Invalid or expired token.", 400)]_vars

\* C4 amended: such a request never changes a user and always fails: with 400
\* "Invalid or expired token." when its newPassword has 8 to 25 characters,
\* with 422 when the length is outside that range, and with the 400 of an
\* invalid request when newPassword is missing.
C4_ConsumedTokenIsRejected ==
    [][\A p \in Procs :
          (Steps(p) /\ req'[p].op = "resetPassword" /\ req'[p].late)
          => /\ users' = users
             /\ pc'[p] = "done" =>
                   res'[p] =
                     IF req'[p].newPassword = ""
                       THEN NextErr("Invalid request. Please provide id, token, and newPassword in the request body.", 400)
                     ELSE IF Len(req'[p].newPassword) < 8 \/ Len(req'[p].newPassword) > 25
                       THEN NextErr("Password must be between 8 and 25 characters long.", 422)
                       ELSE NextErr("Invalid or expired token.", 400)]_vars

\* C4 witness: a reset that reused a consumed (id, token) with a well-formed
\* newPassword was answered 400 "Invalid or expired token.".
C4_Witness ==
    \E p \in Procs :
        /\ pc[p] = "done" /\ req[p].op = "resetPassword" /\ req[p].late
        /\ req[p].newPassword = Pw25
        /\ res[p] = NextErr("Invalid or expired token.", 400)

\* C8: no step of a verify changes the UserToken collection; a verify whose
\* (id, token) matches a stored UserToken goes on to the update, and the
\* update of an existing user answers 200 and leaves exactly that user's
\* emailVerified true, whether it was true before or not.
C8_VerifyKeepsTokenAndIsIdempotent ==
    [][\A p \in Procs :
          /\ ((req[p].op = "verify" \/ req'[p].op = "verify") /\ pc[p] # pc'[p])
                => userTokens' = userTokens
          /\ ( /\ pc[p] = "vf_find" /\ pc'[p] # "vf_find"
               /\ [userId |-> req[p].id, token |-> req[p].token] \in userTokens )
                => pc'[p] = "vf_update"
          /\ ( /\ pc[p] = "vf_update" /\ pc'[p] # "vf_update"
               /\ \E u \in users : u.id = req[p].id )
                => /\ pc'[p] = "done"
                   /\ res'[p] = Json(200, "Email verified successfully.", NoToken, NoToken)
                   /\ \A u \in users' : u.id = req[p].id => u.emailVerified
                   /\ {[u EXCEPT !.emailVerified = FALSE] : u \in {v \in users' : v.id = req[p].id}}
                        \cup {v \in users' : v.id # req[p].id}
                      = {[u EXCEPT !.emailVerified = FALSE] : u \in {v \in users : v.id = req[p].id}}
                        \cup {v \in users : v.id # req[p].id}]_vars

\* C8 witness: a verify answered 200 for a user who was verified already (the
\* request was a repeat), and the token it presented is still stored.
C8_Witness ==
    \E p \in Procs :
        /\ pc[p] = "done" /\ req[p].op = "verify"
        /\ res[p].status = 200
        /\ req[p].user # NoUser /\ req[p].user.emailVerified
        /\ [userId |-> req[p].id, token |-> req[p].token] \in userTokens
        /\ \E u \in users : u.id = req[p].id /\ u.emailVerified

ValidEventExists(userId, today) ==
    \E a \in attendees :
        /\ a.userId = userId
        /\ a.event.present /\ a.event.isActive
        /\ ~(a.event.endDate < today)

\* C5: a loginMobile of a verified Guest with the right password is not
\* answered before the attendee query; the query's answer carries tokens when
\* the user has an attendee record whose event is active and does not end
\* before the current time, and is the 403 otherwise; no other step of a
\* loginMobile hands tokens to a Guest.
C5_GuestNeedsValidEvent ==
    [][\A p \in Procs :
          /\ ( /\ pc[p] = "lm_find" /\ pc'[p] # "lm_find"
               /\ \E u \in users : /\ u.email = req[p].email
                                   /\ u.emailVerified
                                   /\ u.role = UserRoleGuest
                                   /\ u.password = Hash(req[p].password) )
                => pc'[p] = "lm_attendees" /\ res'[p] = NoRes
          /\ (pc[p] = "lm_attendees" /\ pc'[p] # "lm_attendees")
                => /\ pc'[p] = "done"
                   /\ IF ValidEventExists(req[p].user.id, now)
                        THEN /\ res'[p].via = "json" /\ res'[p].status = 200
                             /\ res'[p].access.id = req[p].user.id
                             /\ res'[p].refresh.id = req[p].user.id
                        ELSE res'[p] = NextErr("User must have an active event with a valid end date to log in.", 403)
          /\ ( /\ Steps(p) /\ req'[p].op = "loginMobile"
               /\ res'[p].access # NoToken
               /\ req'[p].user.role = UserRoleGuest )
                => pc[p] = "lm_attendees" /\ ValidEventExists(req[p].user.id, now)]_vars

\* C5 witness: a verified Guest with the right password was refused with 403
\* although an attendee record of theirs exists: its event has ended.
C5_Witness ==
    \E p \in Procs :
        /\ pc[p] = "done" /\ req[p].op = "loginMobile"
        /\ res[p].status = 403
        /\ req[p].user # NoUser /\ req[p].user.role = UserRoleGuest
        /\ \E a \in attendees :
              /\ a.userId = req[p].user.id
              /\ a.event.present /\ a.event.isActive /\ a.event.endDate < now

\* C6: a login that supplies email and password reaches the user lookup, and
\* when the user found there has emailVerified false the answer is the 403
\* "Must verify email before logging in.", with no token, whatever the password.
C6_UnverifiedLoginIs403 ==
    [][\A p \in Procs :
          /\ ( /\ pc[p] = "idle" /\ pc'[p] # "idle" /\ req'[p].op = "login"
               /\ req'[p].email # "" /\ req'[p].password # "" )
                => pc'[p] = "login_find"
          /\ ( /\ pc[p] = "login_find" /\ pc'[p] # "login_find"
               /\ \E u \in users : u.email = req[p].email /\ ~u.emailVerified )
                => /\ pc'[p] = "done"
                   /\ res'[p] = NextErr("Must verify email before logging in.", 403)
                   /\ res'[p].access = NoToken /\ res'[p].refresh = NoToken]_vars

\* C6 witness: a login with the right password of an unverified user was
\* answered 403.
C6_Witness ==
    \E p \in Procs :
        /\ pc[p] = "done" /\ req[p].op = "login"
        /\ res[p].status = 403
        /\ \E u \in users : /\ u.email = req[p].email /\ ~u.emailVerified
                            /\ u.password = Hash(req[p].password)

\* C7: a refresh that presents a token is answered 403 exactly when the token
\* is not signed with the refresh secret or has expired; otherwise it looks
\* the user up and answers 200 with a fresh access token and no refresh token
\* when the user exists, 404 when not; no step of a refresh writes to a
\* collection.  Nothing else is consulted: earlier refreshes and password
\* resets do not matter.
C7_RefreshDependsOnTokenAndUserOnly ==
    [][\A p \in Procs :
          /\ ( /\ pc[p] = "idle" /\ pc'[p] # "idle" /\ req'[p].op = "refresh"
               /\ req'[p].refreshToken # NoToken )
                => IF req'[p].refreshToken.secret = "refresh" /\ now < req'[p].refreshToken.exp
                     THEN pc'[p] = "rf_find"
                     ELSE /\ pc'[p] = "done"
                          /\ res'[p] = NextErr("Invalid or expired refresh token.", 403)
          /\ (pc[p] = "rf_find" /\ pc'[p] # "rf_find")
                => /\ pc'[p] = "done"
                   /\ IF \E u \in users : u.id = req[p].refreshToken.id
                        THEN res'[p] = Json(200, "accessToken",
                                            [id |-> req[p].refreshToken.id, secret |-> "access",
                                             exp |-> now + AccessTTL],
                                            NoToken)
                        ELSE res'[p] = NextErr("User not found.", 404)
          /\ ((req[p].op = "refresh" \/ req'[p].op = "refresh") /\ pc[p] # pc'[p])
                => /\ users' = users /\ userTokens' = userTokens
                   /\ attendees' = attendees /\ outbox' = outbox]_vars

\* C7 witness: a refresh token that had already minted an access token
\* minted another one after the password of its user had been reset.
C7_Witness ==
    \E p \in Procs :
        /\ pc[p] = "done" /\ req[p].op = "refresh"
        /\ res[p].status = 200 /\ res[p].access # NoToken
        /\ req[p].usedBefore
        /\ \E pair \in resetDone : pair[1] = req[p].refreshToken.id

\* C11: approving, rejecting or deleting an attendee by id affects only the
\* record with that id.  The awaited call of updateAttendeeApprovalStatus
\* leaves every record with another id as it was, leaves the number of
\* records as it was, gives the record with that id the requested isApproved
\* and its old userId and event, and returns that record; the awaited call
\* of deleteAttendeeById removes the record with that id, keeps every other
\* record and adds none, and returns the removed record; when no record has
\* the id each returns null and the EventAttendee collection is unchanged.
\* Neither touches the User or UserToken collection or the id counter.
C11_AttendeeOpsTouchOneRecord ==
    [][\A p \in Procs :
          /\ (pc[p] = "ua_update" /\ pc'[p] = "done")
                => LET id    == req[p].attendeeId
                       found == {a \in attendees : a.id = id} IN
                   /\ \A a \in attendees : a.id # id => a \in attendees'
                   /\ Cardinality(attendees') = Cardinality(attendees)
                   /\ IF found = {}
                        THEN attendees' = attendees /\ res'[p].msg = "null"
                        ELSE /\ res'[p].msg = "attendee"
                             /\ req'[p].attendee \in attendees'
                             /\ req'[p].attendee.id = id
                             /\ req'[p].attendee.isApproved = req[p].isApproved
                             /\ \A a \in found : /\ req'[p].attendee.userId = a.userId
                                                 /\ req'[p].attendee.event = a.event
          /\ (pc[p] = "da_delete" /\ pc'[p] = "done")
                => LET id    == req[p].attendeeId
                       found == {a \in attendees : a.id = id} IN
                   /\ \A a \in attendees : a.id # id => a \in attendees'
                   /\ attendees' \subseteq attendees
                   /\ \A a \in attendees' : a.id # id
                   /\ IF found = {}
                        THEN attendees' = attendees /\ res'[p].msg = "null"
                        ELSE res'[p].msg = "attendee" /\ req'[p].attendee \in found
          /\ (pc[p] \in {"ua_update", "da_delete"} /\ pc'[p] # pc[p])
                => /\ users' = users /\ userTokens' = userTokens
                   /\ nextAttendeeId' = nextAttendeeId]_vars

\* C11 witness: an approval has returned the approved record while another
\* record, still not approved, is in the collection.
C11_Witness ==
    \E p \in Procs :
        /\ pc[p] = "done" /\ req[p].op = "updateAttendeeApprovalStatus"
        /\ req[p].isApproved /\ res[p].msg = "attendee"
        /\ req[p].attendee.isApproved
        /\ \E other \in attendees : other.id # req[p].attendeeId /\ ~other.isApproved

\* C12: one stored UserToken authorises at most one successful password
\* reset.  Token strings are never issued twice, so this says: no
\* resetPassword request ends with 200 for an (id, token) pair for which
\* another resetPassword request has already ended with 200.
C12_OneResetPerToken ==
    [][\A p \in Procs :
          ( /\ pc[p] = "rp_delete" /\ pc'[p] = "done"
            /\ res'[p].status = 200 )
             => <<req[p].id, req[p].token>> \notin resetDone]_vars

\* C13: a user's emailVerified is true only if a verify request has
\* succeeded for that user.  No user is verified at the start and ids are
\* never handed out twice, so this says: every step after which a user is
\* verified who was not verified before is the last step of a verify
\* request for that user's id, one that found a matching UserToken and
\* answered 200; in particular no step of a register request is such a step.
C13_VerifiedOnlyByVerify ==
    [][\A u \in users' :
          (u.emailVerified /\ ~(\E v \in users : v.id = u.id /\ v.emailVerified))
             => \E p \in Procs :
                   /\ req[p].op = "verify" /\ req[p].id = u.id
                   /\ pc[p] = "vf_update" /\ pc'[p] = "done"
                   /\ res'[p].status = 200]_vars
====
